---- MODULE Spec2Model ----
(***************************************************************************)
(* Model of the go-metrics InfluxDB reporter (reporter.go).  The source    *)
(* holds two variants of the reporter: the first (lines 1-214) tags a      *)
(* statistic with the key "bucketId" and reports four percentiles, the     *)
(* second (lines 216-432) uses the key "bucket" and reports six.  The      *)
(* variable `variant` says which one runs.                                 *)
(*                                                                         *)
(* Time is counted in seconds.  `elapsed` is the time since run() created  *)
(* its two tickers; a ticker delivers into a channel with one slot by a    *)
(* non-blocking send (time.Tick), so a tick that finds the slot full is    *)
(* lost.  The loop goroutine is at `pc`; the write and the readiness ping  *)
(* are blocking calls, so they have a start and a return step and time may *)
(* pass between the two.                                                   *)
(***************************************************************************)
EXTENDS Integers, Sequences, FiniteSets, Bags, TLC

\* ----------------------------------------------------------------- bounds
MaxElapsed == 6        \* seconds of the run that are explored
MaxUpdates == 1        \* updates the instrumented application makes
StartWall  == 43217    \* wall-clock second at which the tickers start (12:00:17)

\* ------------------------------------------------------ program constants
PingPeriod == 5        \* time.Tick(time.Second * 5)

VARIABLES
    variant,     \* "bucketId" (first variant) or "bucket" (second variant)
    registry,    \* the metrics registry: name -> metric (shared with the application)
    args,        \* the arguments the constructor was called with (Nil before)
    r,           \* the reporter struct (Nil before it is built)
    pc,          \* "init", "returned", "select", "each", "write", "ready"
    ch,          \* ticks pending in each ticker's channel: 0 or 1
    elapsed,     \* seconds since the tickers were created
    now,         \* send(): the timestamp of this tick
    tickWall,    \* send(): what time.Now() returned, before truncation
    todo,        \* send(): names registry.Each has still to visit
    pts,         \* send(): the points appended so far (a bag)
    snap,        \* send(): name -> the snapshot taken of it in this tick
    write,       \* the write call in flight (Nil when none)
    ping,        \* the Ready call in flight (Nil when none)
    runs,        \* handler runs started, per ticker
    n,           \* counts: makeClient calls, write calls, failed writes, failed pings
    logged,      \* log lines printed, per message
    updates      \* updates made by the application

vars == <<variant, registry, args, r, pc, ch, elapsed, now, tickWall, todo, pts,
          snap, write, ping, runs, n, logged, updates>>

Nil == [nil |-> TRUE]
Tickers == {"interval", "ping"}
Variants == {"bucketId", "bucket"}

\* ------------------------------------------------------------ the registry
\* A metric is [kind, v]: v holds what the metric's Snapshot() accessors return.
Distribution(c) ==
    [Count |-> c, Max |-> 90, Mean |-> 50, Min |-> 10, StdDev |-> 20, Variance |-> 40,
     Percentile |-> [p \in {"0.5", "0.75", "0.95", "0.99", "0.999", "0.9999"} |->
                       CASE p = "0.5" -> 51 [] p = "0.75" -> 75 [] p = "0.95" -> 95
                         [] p = "0.99" -> 99 [] p = "0.999" -> 199 [] OTHER -> 299]]

Rates(c) == [Count |-> c, Rate1 |-> 1, Rate5 |-> 5, Rate15 |-> 15, RateMean |-> 7]

NewMetric(kind, c) ==
    [kind |-> kind,
     v |-> CASE kind = "Histogram" -> Distribution(c)
             [] kind = "Meter" -> Rates(c)
             [] kind = "Timer" -> Distribution(c) @@ Rates(c)
             [] kind \in {"Gauge", "GaugeFloat64"} -> [Value |-> c]
             [] OTHER -> [Count |-> c]]

\* The registries explored; one is empty.  "Healthcheck" is a registered type
\* that is none of the kinds the reporter exports.
Registries ==
    { [k \in {} |-> NewMetric("Counter", 0)],
      ("x" :> NewMetric("Counter", 5)),
      ("g" :> NewMetric("Gauge", 7)) @@ ("h" :> NewMetric("Histogram", 3))
         @@ ("m" :> NewMetric("Meter", 4)),
      ("f" :> NewMetric("GaugeFloat64", 2)) @@ ("t" :> NewMetric("Timer", 6))
         @@ ("k" :> NewMetric("Healthcheck", 0)) }

\* metric.Snapshot(): a copy of the metric's values
Snapshot(metric) == metric.v

\* ms.Percentiles(ps): one value per requested percentile, in order
Percentiles(ms, ps) == [i \in 1..Len(ps) |-> ms.Percentile[ps[i]]]

\* ---------------------------------------------------------- the arguments
EmptyTags == [k \in {} |-> ""]
TagSets == { EmptyTags,
             ("host" :> "web1"),
             ("host" :> "web1") @@ ("bucket" :> "prod") @@ ("bucketId" :> "prod") }
Intervals == {0, 2, 5}
ServerUrls == {"HTTP://db:8086", "http://[::1"}

\* faulty Parse: every string is accepted
ParseLenient(serverUrl) == [err |-> FALSE, u |-> [Scheme |-> "http", Host |-> "db:8086"]]

\* url.Parse: lower-cases the scheme; "http://[::1" has no closing bracket
Parse(serverUrl) ==
    IF serverUrl = "HTTP://db:8086"
    THEN [err |-> FALSE, u |-> [Scheme |-> "http", Host |-> "db:8086"]]
    ELSE [err |-> TRUE, u |-> [Scheme |-> "", Host |-> ""]]

\* (*URL).String()
URLString(u) == u.Scheme \o "://" \o u.Host

\* -------------------------------------------------------------- the client
\* client.NewClient(url, token); id tells one handle from another
NewClient(id, serverURL, token) == [id |-> id, serverURL |-> serverURL, token |-> token]

\* faulty ClientURL: the second variant passes the host, not the whole URL
ClientURLHost(rep) ==
    IF variant = "bucketId" THEN rep.serverURL ELSE rep.serverURL.Host

\* what makeClient passes to NewClient: r.serverURL, or r.url.String()
ClientURL(rep) ==
    IF variant = "bucketId" THEN rep.serverURL ELSE URLString(rep.serverURL)

makeClient(rep) ==
    [rep EXCEPT !.client = NewClient(n.makes + 1, ClientURL(rep), rep.token)]

\* ------------------------------------------------------------------ points
\* write.NewPoint(measurement, tags, fields, ts)
NewPoint(measurement, tags, fields, ts) ==
    [measurement |-> measurement, tags |-> tags, fields |-> fields, time |-> ts]

\* the key of the tag that names the statistic
StatTagKey == IF variant = "bucketId" THEN "bucketId" ELSE "bucket"

bucketTags(bucket, tags) ==
    [k \in DOMAIN tags \cup {StatTagKey} |-> IF k = StatTagKey THEN bucket ELSE tags[k]]

\* faulty Truncate: rounds to the nearest multiple
TruncateNearest(t, d) == IF d <= 0 THEN t ELSE ((t + d \div 2) \div d) * d

\* Time.Truncate(d): rounds down to a multiple of d; unchanged when d <= 0
Truncate(t, d) == IF d <= 0 THEN t ELSE t - (t % d)

\* the percentiles asked of a histogram or timer snapshot
PercentileArgs ==
    IF variant = "bucketId" THEN <<"0.5", "0.75", "0.95", "0.99">>
    ELSE <<"0.5", "0.75", "0.95", "0.99", "0.999", "0.9999">>

ExtendedFields(ps) ==
    IF variant = "bucketId" THEN [k \in {} |-> 0]
    ELSE ("p999" :> ps[5]) @@ ("p9999" :> ps[6])

HistogramFields(ms) ==
    LET ps == Percentiles(ms, PercentileArgs)
    IN  [count |-> ms.Count, max |-> ms.Max, mean |-> ms.Mean, min |-> ms.Min,
         stddev |-> ms.StdDev, variance |-> ms.Variance,
         p50 |-> ps[1], p75 |-> ps[2], p95 |-> ps[3], p99 |-> ps[4]]
        @@ ExtendedFields(ps)

\* faulty MeterFields: the mean rate under the timer's key
MeterFieldsTimerKey(ms) ==
    [count |-> ms.Count, m1 |-> ms.Rate1, m5 |-> ms.Rate5, m15 |-> ms.Rate15,
     meanrate |-> ms.RateMean]

MeterFields(ms) ==
    [count |-> ms.Count, m1 |-> ms.Rate1, m5 |-> ms.Rate5, m15 |-> ms.Rate15,
     mean |-> ms.RateMean]

TimerFields(ms) ==
    HistogramFields(ms)
      @@ [m1 |-> ms.Rate1, m5 |-> ms.Rate5, m15 |-> ms.Rate15, meanrate |-> ms.RateMean]

\* faulty CounterFields: the count and a second field beside it
CounterFieldsTwo(name, ms) ==
    ((name \o ".count") :> ms.Count) @@ ((name \o ".value") :> ms.Count)

\* the field of a counter's point and of a gauge's point
CounterFields(name, ms) == ((name \o ".count") :> ms.Count)

GaugeFields(name, ms) == ((name \o ".gauge") :> ms.Value)

\* one point per entry of fields, tagged with the entry's key
StatPoints(rep, key, fields, ts) ==
    SetToBag({ NewPoint(rep.measurement, bucketTags(k, rep.tags), (key :> fields[k]), ts)
               : k \in DOMAIN fields })

\* the body of the callback given to registry.Each: what it appends to pts
EachPoints(rep, name, metric, ts) ==
    LET ms == Snapshot(metric)
    IN  CASE metric.kind = "Counter" ->
               SetToBag({NewPoint(rep.measurement, rep.tags, CounterFields(name, ms), ts)})
          [] metric.kind \in {"Gauge", "GaugeFloat64"} ->
               SetToBag({NewPoint(rep.measurement, rep.tags, GaugeFields(name, ms), ts)})
          [] metric.kind = "Histogram" ->
               StatPoints(rep, name \o ".histogram", HistogramFields(ms), ts)
          [] metric.kind = "Meter" ->
               StatPoints(rep, name \o ".meter", MeterFields(ms), ts)
          [] metric.kind = "Timer" ->
               StatPoints(rep, name \o ".timer", TimerFields(ms), ts)
          [] OTHER -> EmptyBag

\* ------------------------------------------------------------------- state
Init ==
    /\ variant \in Variants
    /\ registry \in Registries
    /\ args = Nil
    /\ r = Nil
    /\ pc = "init"
    /\ ch = [t \in Tickers |-> 0]
    /\ elapsed = 0
    /\ now = 0
    /\ tickWall = 0
    /\ todo = {}
    /\ pts = EmptyBag
    /\ snap = [k \in {} |-> Nil]
    /\ write = Nil
    /\ ping = Nil
    /\ runs = [t \in Tickers |-> 0]
    /\ n = [makes |-> 0, writes |-> 0, writeErrs |-> 0, pingFails |-> 0]
    /\ logged = [parse |-> 0, send |-> 0, ping |-> 0]
    /\ updates = 0

\* ----------------------------------------------------------- construction
InfluxDBWithTags(reg, interval, serverUrl, organizationID, bucketID, measurement, token, tags, alignTimestamps) ==
    /\ pc = "init"
    /\ args' = [registry |-> reg, interval |-> interval, serverUrl |-> serverUrl,
                organizationID |-> organizationID, bucketID |-> bucketID,
                measurement |-> measurement, token |-> token, tags |-> tags,
                alignTimestamps |-> alignTimestamps]
    /\ LET p == Parse(serverUrl)
       IN  IF p.err
           THEN /\ logged' = [logged EXCEPT !.parse = @ + 1]
                /\ pc' = "returned"
                /\ UNCHANGED <<r, n>>
           ELSE /\ r' = makeClient(
                          [registry |-> reg, interval |-> interval,
                           serverURL |-> IF variant = "bucketId" THEN URLString(p.u) ELSE p.u,
                           organizationId |-> organizationID, bucketId |-> bucketID,
                           measurement |-> measurement, token |-> token, tags |-> tags,
                           align |-> alignTimestamps, client |-> Nil])
                /\ n' = [n EXCEPT !.makes = @ + 1]
                /\ pc' = "select"
                /\ UNCHANGED logged
    /\ UNCHANGED <<variant, registry, ch, elapsed, now, tickWall, todo, pts, snap,
                   write, ping, runs, updates>>

InfluxDB(reg, interval, serverUrl, organizationID, bucketID, measurement, token, alignTimestamps) ==
    InfluxDBWithTags(reg, interval, serverUrl, organizationID, bucketID, measurement, token,
                     EmptyTags, alignTimestamps)

\* --------------------------------------------------------------- the loop
\* faulty Selecting: a tick is taken while a handler is still running
SelectingAlways == pc \notin {"init", "returned"}

\* the loop takes a tick only when it is blocked in select
Selecting == pc = "select"

\* the ticker's period; a period <= 0 gives a nil channel, which never delivers
Period(t) == IF t = "interval" THEN r.interval ELSE PingPeriod
Fires(t, at) == Period(t) > 0 /\ at % Period(t) = 0

\* faulty TrySend: the channel queues every tick
TrySendQueued(slot) == slot + 1

\* the ticker's non-blocking send into its one-slot channel: the slot is full
\* afterwards, whether the tick went in or was lost
TrySend(slot) == IF slot = 0 THEN 1 ELSE slot

\* One second passes; each ticker that is due makes its non-blocking send.
Tick ==
    /\ pc \notin {"init", "returned"}
    /\ elapsed < MaxElapsed
    /\ elapsed' = elapsed + 1
    /\ ch' = [t \in Tickers |-> IF Fires(t, elapsed') THEN TrySend(ch[t]) ELSE ch[t]]
    /\ UNCHANGED <<variant, registry, args, r, pc, now, tickWall, todo, pts, snap,
                   write, ping, runs, n, logged, updates>>

\* case <-intervalTicker: send() starts: the timestamp, then registry.Each
SendBegin ==
    /\ Selecting
    /\ ch["interval"] = 1
    /\ ch' = [ch EXCEPT !["interval"] = 0]
    /\ runs' = [runs EXCEPT !["interval"] = @ + 1]
    /\ tickWall' = StartWall + elapsed
    /\ now' = IF r.align THEN Truncate(StartWall + elapsed, r.interval)
              ELSE StartWall + elapsed
    /\ pts' = EmptyBag
    /\ todo' = DOMAIN registry
    /\ snap' = [k \in {} |-> Nil]
    /\ pc' = "each"
    /\ UNCHANGED <<variant, registry, args, r, elapsed, write, ping, n, logged, updates>>

\* registry.Each calls the callback for one more metric
SendEach(name) ==
    /\ pc = "each"
    /\ name \in todo
    /\ todo' = todo \ {name}
    /\ pts' = pts (+) EachPoints(r, name, registry[name], now)
    /\ snap' = (name :> Snapshot(registry[name])) @@ snap
    /\ UNCHANGED <<variant, registry, args, r, pc, ch, elapsed, now, tickWall, write,
                   ping, runs, n, logged, updates>>

\* faulty EachDone: the write does not wait for the iteration
EachDoneEarly == TRUE

\* registry.Each has returned: every registered metric was visited
EachDone == todo = {}

\* r.client.WriteAPIBlocking(org, bucket).WritePoint(ctx, pts...) is called
WriteStart ==
    /\ pc = "each"
    /\ EachDone
    /\ write' = [client |-> r.client, org |-> r.organizationId, bucket |-> r.bucketId,
                 batch |-> pts]
    /\ n' = [n EXCEPT !.writes = @ + 1]
    /\ pc' = "write"
    /\ UNCHANGED <<variant, registry, args, r, ch, elapsed, now, tickWall, todo, pts,
                   snap, ping, runs, logged, updates>>

\* faulty AfterSend: a failed send ends the loop
AfterSendFatal(ok) == IF ok THEN "select" ELSE "returned"

\* where the loop goes when send() has returned: back to select, error or not
AfterSend(ok) == "select"

\* WritePoint returns; send() returns its error (its locals are gone) and run()
\* logs it
WriteReturn(ok) ==
    /\ pc = "write"
    /\ write' = Nil
    /\ n' = [n EXCEPT !.writeErrs = IF ok THEN @ ELSE @ + 1]
    /\ logged' = [logged EXCEPT !.send = IF ok THEN @ ELSE @ + 1]
    /\ now' = 0
    /\ tickWall' = 0
    /\ pts' = EmptyBag
    /\ snap' = [k \in {} |-> Nil]
    /\ pc' = AfterSend(ok)
    /\ UNCHANGED <<variant, registry, args, r, ch, elapsed, todo, ping, runs, updates>>

\* case <-pingTicker: r.client.Ready(ctx) is called
ReadyStart ==
    /\ Selecting
    /\ ch["ping"] = 1
    /\ ch' = [ch EXCEPT !["ping"] = 0]
    /\ runs' = [runs EXCEPT !["ping"] = @ + 1]
    /\ ping' = [client |-> r.client]
    /\ pc' = "ready"
    /\ UNCHANGED <<variant, registry, args, r, n, elapsed, now, tickWall, todo, pts, snap,
                   write, logged, updates>>

\* Ready returns; when not ready the client is made again
ReadyReturn(ready) ==
    /\ pc = "ready"
    /\ ping' = Nil
    /\ IF ready
       THEN UNCHANGED <<r, n, logged>>
       ELSE /\ logged' = [logged EXCEPT !.ping = @ + 1]
            /\ r' = makeClient(r)
            /\ n' = [n EXCEPT !.makes = @ + 1, !.pingFails = @ + 1]
    /\ pc' = "select"
    /\ UNCHANGED <<variant, registry, args, ch, elapsed, now, tickWall, todo, pts, snap,
                   write, runs, updates>>

\* --------------------------------------------------------- the application
\* the instrumented application updates a metric: Inc(1), Update(v + 1), Mark(1)
Updated(metric) ==
    IF metric.kind \in {"Gauge", "GaugeFloat64"}
    THEN [metric EXCEPT !.v.Value = @ + 1]
    ELSE [metric EXCEPT !.v.Count = @ + 1]

AppUpdate(name) ==
    /\ updates < MaxUpdates
    /\ name \in DOMAIN registry
    /\ registry' = [registry EXCEPT ![name] = Updated(@)]
    /\ updates' = updates + 1
    /\ UNCHANGED <<variant, args, r, pc, ch, elapsed, now, tickWall, todo, pts, snap,
                   write, ping, runs, n, logged>>

Names == {"x", "g", "h", "m", "f", "t", "k"}

Construct ==
    \E interval \in Intervals, serverUrl \in ServerUrls, tags \in TagSets,
       alignTimestamps \in BOOLEAN :
        \/ InfluxDBWithTags("DefaultRegistry", interval, serverUrl, "org", "metrics", "app", "secret",
                            tags, alignTimestamps)
        \/ InfluxDB("DefaultRegistry", interval, serverUrl, "org", "metrics", "app", "secret",
                    alignTimestamps)

Next ==
    \/ Construct
    \/ Tick
    \/ SendBegin
    \/ \E name \in Names : SendEach(name)
    \/ WriteStart
    \/ \E ok \in BOOLEAN : WriteReturn(ok)
    \/ ReadyStart
    \/ \E ready \in BOOLEAN : ReadyReturn(ready)
    \/ \E name \in Names : AppUpdate(name)

Spec == Init /\ [][Next]_vars

\* ================================================================ properties
Started == pc \notin {"init", "returned"}

\* the configuration fields of the reporter: all but the client handle
ConfigOf(rep) ==
    [registry |-> rep.registry, interval |-> rep.interval, align |-> rep.align,
     serverURL |-> rep.serverURL, organizationId |-> rep.organizationId,
     bucketId |-> rep.bucketId, measurement |-> rep.measurement, token |-> rep.token,
     tags |-> rep.tags]

\* the endpoint the constructor keeps: the caller's URL as url.Parse and String give it
EndpointAtConstruction == URLString(Parse(args.serverUrl).u)

\* the configuration the constructor captured from its arguments
ConfigAtConstruction ==
    [registry |-> args.registry, interval |-> args.interval,
     align |-> args.alignTimestamps,
     serverURL |-> IF variant = "bucketId" THEN EndpointAtConstruction
                   ELSE Parse(args.serverUrl).u,
     organizationId |-> args.organizationID, bucketId |-> args.bucketID,
     measurement |-> args.measurement, token |-> args.token, tags |-> args.tags]

\* the strings among ServerUrls that url.Parse rejects
InvalidUrls == {"http://[::1"}

\* C1: a reporting tick whose write fails is only logged: the loop is back in
\* select with the reporter struct and the pending ticks untouched, a pending
\* reporting tick can still be taken, every export visits the whole registry,
\* takes each value as the registry holds it at that moment and makes one write
\* attempt, and the configuration fields stay as the constructor captured them.
C1_FailedWriteOnlyLogged ==
    /\ [](Started => ConfigOf(r) = ConfigAtConstruction)
    /\ []((Started /\ pc = "select" /\ ch["interval"] = 1) => ENABLED SendBegin)
    /\ [][(pc = "write" /\ n'.writeErrs = n.writeErrs + 1) =>
             /\ pc' = "select"
             /\ r' = r
             /\ ch' = ch
             /\ logged' = [logged EXCEPT !.send = @ + 1]]_vars
    /\ [][(pc = "each" /\ todo' # todo) =>
             \A name \in todo \ todo' :
                /\ snap'[name] = registry[name].v
                /\ registry[name].kind = "Counter" =>
                      \E p \in BagToSet(pts') :
                          p.fields = ((name \o ".count") :> registry[name].v.Count)]_vars
    /\ [][(pc = "each" /\ pc' # "each") =>
             /\ DOMAIN snap = DOMAIN registry
             /\ n'.writes = n.writes + 1
             /\ write' # Nil /\ write'.batch = pts]_vars

\* a second write is in flight after a failed one, carrying a value the
\* application changed
C1_Witness ==
    /\ n.writeErrs >= 1
    /\ pc = "write"
    /\ updates >= 1
    /\ "x" \in DOMAIN registry
    /\ \E p \in BagToSet(write.batch) : p.fields = ("x.count" :> 6)
    /\ ConfigOf(r) = ConfigAtConstruction

\* C2: the client handle is made once at startup and once more for each ping
\* that reported not-ready, and by nothing else; the current handle is always
\* built from the endpoint URL and the token captured at construction.
C2_OneReplacementPerFailedPing ==
    Started =>
        /\ n.makes = 1 + n.pingFails
        /\ r.client = [id |-> n.makes, serverURL |-> EndpointAtConstruction,
                       token |-> args.token]

\* a failed ping has replaced the handle, and exports (one failed) ran too
C2_Witness ==
    /\ Started
    /\ n.pingFails >= 1
    /\ r.client.id = 2
    /\ n.writeErrs >= 1

\* C7: when the URL does not parse the constructor logs and returns: no
\* reporter, no client handle, no ping, no write, no ticker; when it parses the
\* handle exists exactly once before any handler runs, and the constructor
\* returns in no other case, whatever writes and pings fail.
C7_ParseFailureStartsNothing ==
    /\ pc = "returned" =>
          /\ args.serverUrl \in InvalidUrls
          /\ r = Nil /\ write = Nil /\ ping = Nil
          /\ n.makes = 0 /\ n.writes = 0
          /\ \A t \in Tickers : runs[t] = 0 /\ ch[t] = 0
          /\ elapsed = 0
          /\ logged = [parse |-> 1, send |-> 0, ping |-> 0]
    /\ Started =>
          /\ args.serverUrl \notin InvalidUrls
          /\ logged.parse = 0
          /\ r.client # Nil
          /\ (\A t \in Tickers : runs[t] = 0) => (n.makes = 1 /\ r.client.id = 1)

\* the constructor has returned on a URL that does not parse
C7_Witness == pc = "returned" /\ logged.parse = 1 /\ args.serverUrl = "http://[::1"

\* ------------------------------------------------------- points of a metric
Suffixes == {".count", ".gauge", ".histogram", ".meter", ".timer"}
SimpleKinds == {"Counter", "Gauge", "GaugeFloat64"}
StatKinds == {"Histogram", "Meter", "Timer"}
InSend == pc \in {"each", "write"}

\* the points of a bag that have a field of the metric called name
PointsNaming(bag, name) ==
    { p \in BagToSet(bag) :
        \E k \in DOMAIN p.fields : \E s \in Suffixes \cup {".value"} : k = name \o s }

KindSuffix(kind) ==
    CASE kind = "Counter" -> ".count"
      [] kind \in {"Gauge", "GaugeFloat64"} -> ".gauge"
      [] kind = "Histogram" -> ".histogram"
      [] kind = "Meter" -> ".meter"
      [] kind = "Timer" -> ".timer"
      [] OTHER -> ""

DistributionStats ==
    {"count", "max", "mean", "min", "stddev", "variance", "p50", "p75", "p95", "p99"}
      \cup (IF variant = "bucket" THEN {"p999", "p9999"} ELSE {})

\* the statistics of each kind
ExpectedStats(kind) ==
    CASE kind = "Histogram" -> DistributionStats
      [] kind = "Meter" -> {"count", "m1", "m5", "m15", "mean"}
      [] kind = "Timer" -> DistributionStats \cup {"m1", "m5", "m15", "meanrate"}
      [] OTHER -> {}

\* the number of points one export emits for a metric of a kind
ExpectedPoints(kind) ==
    IF kind \in SimpleKinds THEN 1 ELSE Cardinality(ExpectedStats(kind))

RECURSIVE ExpectedBatchSize(_)
ExpectedBatchSize(names) ==
    IF names = {} THEN 0
    ELSE LET name == CHOOSE x \in names : TRUE
         IN  ExpectedPoints(registry[name].kind) + ExpectedBatchSize(names \ {name})

\* C3: every point of a histogram, meter or timer carries all the caller's
\* default tags with their values and one tag more; every point of a counter or
\* gauge carries exactly the caller's tags; the reporter's tag map stays the
\* caller's.
C3_DefaultTagsKept ==
    /\ Started => r.tags = args.tags
    /\ InSend =>
          \A name \in DOMAIN snap : \A p \in PointsNaming(pts, name) :
              IF registry[name].kind \in StatKinds
              THEN /\ \A k \in DOMAIN args.tags :
                        k \in DOMAIN p.tags /\ p.tags[k] = args.tags[k]
                   /\ Cardinality(DOMAIN p.tags) = Cardinality(DOMAIN args.tags) + 1
              ELSE p.tags = args.tags

\* C4: with alignment the timestamp of the tick is the largest multiple of the
\* interval that is not after the time the tick read; without it, that time
\* itself; every point of the tick carries it.  12:00:17 (second 43217 of the
\* day) with 30 s gives 12:00:00 (43200).
C4_AlignedTimestamp ==
    /\ Truncate(43217, 30) = 43200
    /\ (InSend /\ r.interval > 0) =>
          /\ IF r.align
             THEN /\ now % r.interval = 0
                  /\ now <= tickWall
                  /\ tickWall < now + r.interval
             ELSE now = tickWall
          /\ \A p \in BagToSet(pts) : p.time = now

\* an aligned tick whose timestamp was moved down, with points emitted
C4_Witness ==
    /\ pc = "write"
    /\ r.align
    /\ now < tickWall
    /\ \E p \in BagToSet(write.batch) : p.time = now /\ p.time % r.interval = 0

\* C5: a counter or gauge visited in a tick has exactly one point, once, with
\* the single field name.count (name.gauge) holding the value of its snapshot;
\* a registry that holds only the counter "x" gives a batch of one point.
C5_SimpleMetricOnePointOneField ==
    InSend =>
        /\ \A name \in DOMAIN snap :
              registry[name].kind \in SimpleKinds =>
                LET P == PointsNaming(pts, name)
                    value == IF registry[name].kind = "Counter" THEN snap[name].Count
                             ELSE snap[name].Value
                IN  /\ Cardinality(P) = 1
                    /\ \A p \in P :
                          /\ CopiesIn(p, pts) = 1
                          /\ p.fields = ((name \o KindSuffix(registry[name].kind)) :> value)
        /\ (DOMAIN registry = {"x"} /\ DOMAIN snap = {"x"}) => BagCardinality(pts) = 1

\* the registry holds only the counter "x" at 5 and the batch in flight is one
\* point with the one field "x.count" = 5
C5_Witness ==
    /\ pc = "write"
    /\ DOMAIN registry = {"x"}
    /\ registry["x"].kind = "Counter"
    /\ BagCardinality(write.batch) = 1
    /\ \A p \in BagToSet(write.batch) : p.fields = ("x.count" :> 5)

\* C6: a histogram, meter or timer visited in a tick has one point per
\* statistic of its kind and none twice; each has the single field
\* name.histogram, name.meter or name.timer, and its statistic tag is the name of
\* the statistic.
C6_OnePointPerStatistic ==
    InSend =>
        \A name \in DOMAIN snap :
            registry[name].kind \in StatKinds =>
              LET P == PointsNaming(pts, name)
                  E == ExpectedStats(registry[name].kind)
              IN  /\ \A p \in P :
                        /\ CopiesIn(p, pts) = 1
                        /\ DOMAIN p.fields = {name \o KindSuffix(registry[name].kind)}
                        /\ StatTagKey \in DOMAIN p.tags
                  /\ {p.tags[StatTagKey] : p \in P} = E
                  /\ Cardinality(P) = Cardinality(E)

\* a timer of the extended variant is in the batch in flight with its sixteen
\* points, under default tags that hold the statistic tag's key
C6_Witness ==
    /\ pc = "write"
    /\ variant = "bucket"
    /\ "t" \in DOMAIN snap
    /\ Cardinality(PointsNaming(write.batch, "t")) = 16
    /\ DOMAIN args.tags = {"host", "bucket", "bucketId"}

\* C8: a write and a ping are never in flight together; a handler starts only
\* from select, one per wake-up, taking one pending tick and leaving the other;
\* while a write is in flight the client handle is not replaced.
C8_OneHandlerAtATime ==
    /\ [](~(write # Nil /\ ping # Nil))
    /\ [](write # Nil => pc = "write")
    /\ [](ping # Nil => pc = "ready")
    /\ [][write # Nil => r'.client = r.client]_vars
    /\ [][runs' # runs =>
             /\ pc = "select" /\ pc' \in {"each", "ready"}
             /\ runs'["interval"] + runs'["ping"] = runs["interval"] + runs["ping"] + 1
             /\ ch'["interval"] + ch'["ping"] = ch["interval"] + ch["ping"] - 1]_vars

\* a write is in flight while a tick of each ticker is pending
C8_Witness ==
    /\ pc = "write"
    /\ write.client = r.client
    /\ ch["interval"] = 1
    /\ ch["ping"] = 1

\* C9: every export makes one write call, after the whole registry was
\* visited, on the current client handle and the configured organization and
\* bucket; its batch is the points of this tick, all of them and no others, and
\* all carry the timestamp taken when the tick began.
C9_OneWritePerTick ==
    /\ [](Started => n.writes = runs["interval"] - (IF pc = "each" THEN 1 ELSE 0))
    /\ [](write # Nil =>
             /\ todo = {}
             /\ DOMAIN snap = DOMAIN registry
             /\ write.client = r.client
             /\ write.org = args.organizationID
             /\ write.bucket = args.bucketID
             /\ write.batch = pts
             /\ BagCardinality(write.batch) = ExpectedBatchSize(DOMAIN registry)
             /\ \A p \in BagToSet(write.batch) : p.time = now)
    /\ [][(InSend /\ pc' \in {"each", "write"}) => now' = now]_vars

\* the second export's write is in flight on a handle that replaced the first
C9_Witness ==
    /\ pc = "write"
    /\ runs["interval"] >= 2
    /\ write.client.id = 2
    /\ BagCardinality(write.batch) > 1

\* the ticks a ticker has fired so far
Fired(t) == IF Period(t) > 0 THEN elapsed \div Period(t) ELSE 0

\* C10 as stated: a tick that fires while the loop is inside a handler is
\* dropped, so it leaves the ticker's channel as it was.
C10_BusyTickDropped ==
    [][(elapsed' = elapsed + 1 /\ pc # "select") => ch' = ch]_vars

\* C10 amended: a tick that fires finds its ticker's one slot filled
\* afterwards, busy loop or not, so it is lost only when the slot already held a
\* tick; a slot is emptied only by a handler run that starts from select; at
\* most one tick per ticker is pending and the handler runs of a ticker never
\* exceed the ticks it has fired.
C10_OneTickHeld ==
    /\ [](Started => \A t \in Tickers :
                        ch[t] \in {0, 1} /\ runs[t] + ch[t] <= Fired(t))
    /\ [][elapsed' = elapsed + 1 =>
             \A t \in Tickers : Fires(t, elapsed') => ch'[t] = 1]_vars
    /\ [][\A t \in Tickers :
             ch'[t] < ch[t] => (pc = "select" /\ runs'[t] = runs[t] + 1)]_vars

\* a write is in flight, one reporting tick is held for the loop and another
\* was lost
C10_Witness ==
    /\ pc = "write"
    /\ ch["interval"] = 1
    /\ runs["interval"] + ch["interval"] < Fired("interval")
====
